---- MODULE Spec2Model ----
(***************************************************************************)
(* Model of BaseSpeaker (src/src/services/speaker/base.ts): the response   *)
(* orchestration (response / _response / play), the playback monitor, the  *)
(* wake-state helpers and switchDefaultSpeaker.                            *)
(*                                                                         *)
(* Every `await` of the source is a point where another call may run; an   *)
(* action below is one awaited device call (or sleep) together with the    *)
(* synchronous code that follows it up to the next await.                  *)
(***************************************************************************)
EXTENDS Integers, Sequences, FiniteSets, TLC

\* ------------------------------------------------------------------ bounds
\* poll ticks one monitor may see the device still playing
MaxTicks == 1
\* chunks a caller-supplied stream may produce
MaxChunks == 2
\* catalog fetches the model follows
MaxFetch == 2

\* ------------------------------------------------------------------ inputs
Calls == {"c1", "c2"}

NL == "\n"
SP == " "
\* text payloads; <<>> stands for both an absent text and "" (both are falsy
\* at every use in response/_response)
Texts == {<<>>, <<SP>>, <<"a">>, <<"a", NL, SP, NL, "b">>}

Providers == {"xiaoai", "doubao"}
\* options.tts may be absent
TtsOptions == Providers \cup {"absent"}
\* options.speaker may be absent
SpeakerOptions == {"absent", "v9"}

\* the inert phrase of unWakeUp
kAreYouOK == <<"?">>

\* ------------------------------------------------------------------ text
IsSpace(ch) == ch \in {SP, NL}

\* index of the last NL inside the whitespace run that starts at i, or 0
RECURSIVE LastNL(_, _, _)
LastNL(t, i, best) ==
  IF i > Len(t) \/ ~IsSpace(t[i]) THEN best
  ELSE LastNL(t, i + 1, IF t[i] = NL THEN i ELSE best)

\* text.replace(/\n\s*\n/g, "\n")
RECURSIVE CollapseFrom(_, _)
CollapseFrom(t, i) ==
  IF i > Len(t) THEN <<>>
  ELSE IF t[i] = NL /\ LastNL(t, i + 1, 0) > 0
       THEN <<NL>> \o CollapseFrom(t, LastNL(t, i + 1, 0) + 1)
       ELSE <<t[i]>> \o CollapseFrom(t, i + 1)

RECURSIVE TrimLeft(_)
TrimLeft(t) == IF t # <<>> /\ IsSpace(Head(t)) THEN TrimLeft(Tail(t)) ELSE t

RECURSIVE TrimRight(_)
TrimRight(t) ==
  IF t # <<>> /\ IsSpace(t[Len(t)]) THEN TrimRight(SubSeq(t, 1, Len(t) - 1)) ELSE t

\* text?.replace(/\n\s*\n/g, "\n")?.trim()
TtsText(t) == TrimRight(TrimLeft(CollapseFrom(t, 1)))

\* encodeURIComponent
RECURSIVE EncodeURIComponent(_)
EncodeURIComponent(t) ==
  IF t = <<>> THEN <<>>
  ELSE (IF Head(t) = NL THEN <<"%", "0", "A">>
        ELSE IF Head(t) = SP THEN <<"%", "2", "0">>
        ELSE <<Head(t)>>) \o EncodeURIComponent(Tail(t))

\* StreamResponse.createStreamResponse: the sentence chunks of a text
RECURSIVE SplitFrom(_, _)
SplitFrom(t, cur) ==
  IF t = <<>> THEN (IF cur = <<>> THEN <<>> ELSE <<cur>>)
  ELSE IF Head(t) = NL
       THEN (IF cur = <<>> THEN <<>> ELSE <<cur>>) \o SplitFrom(Tail(t), <<>>)
       ELSE SplitFrom(Tail(t), Append(cur, Head(t)))

\* ------------------------------------------------------------------ cursor
\* A StreamResponse cursor: the chunks produced so far, whether the producer
\* has finished, the read position and the cancellation flag.
NoCursor == [on |-> FALSE, chunks |-> <<>>, fin |-> FALSE, pos |-> 0, cancelled |-> FALSE]

createStreamResponse(t) ==
  [on |-> TRUE, chunks |-> SplitFrom(t, <<>>), fin |-> TRUE, pos |-> 0, cancelled |-> FALSE]

\* a stream handed in by the caller; its producer adds chunks while the call runs
SuppliedStream ==
  [on |-> TRUE, chunks |-> <<>>, fin |-> FALSE, pos |-> 0, cancelled |-> FALSE]

\* stream.getNextResponse(): the pair and the advanced cursor
getNextResponse(cur) ==
  IF cur.cancelled
  THEN [nextSentence |-> <<>>, noMore |-> TRUE, cur |-> cur]
  ELSE IF cur.pos < Len(cur.chunks)
       THEN [nextSentence |-> cur.chunks[cur.pos + 1],
             noMore |-> cur.fin /\ cur.pos + 1 = Len(cur.chunks),
             cur |-> [cur EXCEPT !.pos = cur.pos + 1]]
       ELSE [nextSentence |-> <<>>, noMore |-> cur.fin, cur |-> cur]

\* stream.cancel()
cancel(cur) == [cur EXCEPT !.cancelled = TRUE]

\* ------------------------------------------------------------------ state
VARIABLES
  cfg,             \* constructor config and process environment
  responding,      \* this.responding
  sess,            \* per respond() call: position, locals, device calls issued
  defaultSpeaker,  \* this._defaultSpeaker
  doubaoSpeakers,  \* this._doubaoSpeakers
  sw,              \* the switchDefaultSpeaker call
  fetches          \* catalog fetches issued

vars == <<cfg, responding, sess, defaultSpeaker, doubaoSpeakers, sw, fetches>>

NoOptions ==
  [text |-> <<>>, audio |-> FALSE, stream |-> FALSE, tts |-> "absent",
   speaker |-> "absent", keepAlive |-> FALSE, playSFX |-> FALSE]

\* a device call as the log keeps it: MiNA.play / MiNA.pause / MiIOT.doAction / MiIOT.getProperty /
\* MiNA.getStatus, with what it carries
\* (out is how the call ended: "ok" or "threw"; for a read of the monitor that
\* returned, what the tick made of it: "break", "done" or "playing")
Cmd(op, what, text, speaker, endpoint) ==
  [op |-> op, what |-> what, text |-> text, speaker |-> speaker,
   endpoint |-> endpoint, out |-> "ok"]

Beep == Cmd("play", "beep", <<>>, "", FALSE)
Pause == Cmd("pause", "", <<>>, "", FALSE)
Inert == Cmd("doAction", "tts", kAreYouOK, "", FALSE)
WakeUpCmd == Cmd("doAction", "wake", <<>>, "", FALSE)
GetProperty == Cmd("getProperty", "", <<>>, "", FALSE)
GetStatus == Cmd("getStatus", "", <<>>, "", FALSE)

\* the argument of play(): {url: audio}, {url: vendor TTS url} or {tts: text}
NoArgs == [kind |-> "none", text |-> <<>>, speaker |-> "", endpoint |-> FALSE]

NoTick == [nm |-> FALSE, resp |-> FALSE, status |-> "idle", media |-> "none",
           seen |-> <<>>, hit |-> FALSE]

\* options.hasNewMsg of a call: whether it has started to return true for good,
\* and how many device calls the session had issued when it did
NoNewMsg == [on |-> FALSE, at |-> 0]

IdleSession ==
  [pc |-> "idle", opt |-> NoOptions, cur |-> NoCursor, chunk |-> <<>>,
   noMore |-> FALSE, acc |-> <<>>, ropt |-> NoOptions, speaker |-> "absent",
   args |-> NoArgs, res |-> "undefined", log |-> <<>>, ticks |-> 0,
   tick |-> NoTick, sup |-> FALSE, newMsg |-> NoNewMsg]

kDefaultSpeaker == "zh_female_maomao"

\* this._doubaoSpeakers before any successful fetch
NoCatalog == [loaded |-> FALSE, list |-> <<>>]

\* the state after construction, whatever the configuration
InitRest ==
  /\ responding = FALSE
  /\ sess = [c \in Calls |-> IdleSession]
  /\ defaultSpeaker = kDefaultSpeaker
  /\ doubaoSpeakers = NoCatalog
  /\ sw = [pc |-> "idle", arg |-> "", ret |-> "none"]
  /\ fetches = 0

InFlight(c) == sess[c].pc \notin {"idle", "done", "failed"}

\* ------------------------------------------------------------------ response()
\* lines 137-144: the provider response() settles on
EffectiveTts(o) ==
  IF ~cfg.TTS_DOUBAO THEN "xiaoai"
  ELSE IF o.tts = "absent" THEN cfg.tts ELSE o.tts

\* line 146
ttsNotXiaoai(o) ==
  (o.stream \/ o.text # <<>>) /\ ~o.audio /\ EffectiveTts(o) # "xiaoai"

\* line 147
playSFX(o) == ttsNotXiaoai(o) /\ o.playSFX

\* lines 149-152: the stream response() works on
StreamOf(o) ==
  IF ttsNotXiaoai(o) /\ ~o.stream THEN createStreamResponse(o.text)
  ELSE IF o.stream THEN SuppliedStream ELSE NoCursor

\* lines 185-199: after a pull (and its dispatch, if any)
AfterChunk(s) ==
  IF s.noMore
  THEN IF Len(s.acc) > 0 /\ playSFX(s.opt) THEN [s EXCEPT !.pc = "s_beep2"]
       ELSE IF s.opt.keepAlive THEN [s EXCEPT !.pc = "s_wake"]
       ELSE [s EXCEPT !.pc = "exit"]
  ELSE [s EXCEPT !.pc = "sleep"]

\* (variant: the chime and the unwake precede every chunk, not only the first)
BeforeChunk_EveryChunk(s) ==
  IF playSFX(s.opt) THEN [s EXCEPT !.pc = "s_beep"]
  ELSE IF ttsNotXiaoai(s.opt) THEN [s EXCEPT !.pc = "s_pause"]
  ELSE [s EXCEPT !.pc = "call"]

\* lines 161-171: a chunk was pulled
BeforeChunk(s) ==
  IF Len(s.acc) < 1 /\ playSFX(s.opt) THEN [s EXCEPT !.pc = "s_beep"]
  ELSE IF Len(s.acc) < 1 /\ ttsNotXiaoai(s.opt) THEN [s EXCEPT !.pc = "s_pause"]
  ELSE [s EXCEPT !.pc = "call"]

\* (variant: a chunk is dispatched with the keepAlive of the request)
ChunkOptions_KeepAlive(s) ==
  [s.opt EXCEPT !.text = s.chunk, !.playSFX = FALSE]

\* lines 172-177: the options _response() gets for a chunk
ChunkOptions(s) ==
  [s.opt EXCEPT !.text = s.chunk, !.playSFX = FALSE, !.keepAlive = FALSE]

\* (variant: the streaming loop goes on after an interrupted chunk)
AfterResponse_NoBreak(s) ==
  IF s.cur.on
  THEN AfterChunk([s EXCEPT !.acc = s.acc \o s.chunk])
  ELSE [s EXCEPT !.pc = "exit"]

\* lines 178-183 and 202: _response() has returned res
AfterResponse(s) ==
  IF s.cur.on
  THEN IF s.res = "break"
       THEN [s EXCEPT !.cur = cancel(s.cur), !.pc = "exit"]
       ELSE AfterChunk([s EXCEPT !.acc = s.acc \o s.chunk])
  ELSE [s EXCEPT !.pc = "exit"]

\* ------------------------------------------------------------------ _response()
\* line 224
R_tts(o) == IF o.tts = "absent" THEN cfg.tts ELSE o.tts

\* line 237
R_ttsNotXiaoai(o) ==
  ~o.stream /\ o.text # <<>> /\ ~o.audio /\ R_tts(o) # "xiaoai"

\* line 238
R_playSFX(o) == R_ttsNotXiaoai(o) /\ o.playSFX

\* (variant: the payload test looks at the raw text, not the normalized one)
PlayArgs_RawText(o, speaker) ==
  IF o.audio
  THEN [kind |-> "audio", text |-> <<>>, speaker |-> "", endpoint |-> FALSE]
  ELSE IF o.text # <<>>
  THEN IF R_tts(o) = "doubao"
       THEN [kind |-> "ttsurl", text |-> EncodeURIComponent(TtsText(o.text)),
             speaker |-> speaker, endpoint |-> cfg.TTS_DOUBAO]
       ELSE [kind |-> "tts", text |-> TtsText(o.text), speaker |-> "",
             endpoint |-> FALSE]
  ELSE NoArgs

\* lines 304-321: what _response() hands to play(), if anything
PlayArgs(o, speaker) ==
  IF o.audio
  THEN [kind |-> "audio", text |-> <<>>, speaker |-> "", endpoint |-> FALSE]
  ELSE IF TtsText(o.text) # <<>>
  THEN IF R_tts(o) = "doubao"
       THEN [kind |-> "ttsurl", text |-> EncodeURIComponent(TtsText(o.text)),
             speaker |-> speaker, endpoint |-> cfg.TTS_DOUBAO]
       ELSE [kind |-> "tts", text |-> TtsText(o.text), speaker |-> "",
             endpoint |-> FALSE]
  ELSE NoArgs

\* lines 241-254: the first device call of play()
PlayEntry(o) ==
  IF R_playSFX(o) /\ cfg.audioBeep THEN "p_beep"
  ELSE IF R_ttsNotXiaoai(o) THEN "p_pause"
  ELSE "p_play"

\* lines 250-254: the playback command of play()
PlayCmd(a) ==
  IF a.kind = "tts" THEN Cmd("doAction", "tts", a.text, "", FALSE)
  ELSE Cmd("play", a.kind, a.text, a.speaker, a.endpoint)

\* (variant: the media type of the device reaches the monitor under either read)
PlayingState_KeepsMedia(status, media) ==
  [status |-> status, media |-> media]

\* lines 260-278: what the monitor learns from the read of a tick. The device
\* plays or not (status) and may play media of its own (media); the property read
\* tells only whether the value is the playing marker, the status read tells both
PlayingState(status, media) ==
  IF cfg.playingCommand THEN [status |-> status, media |-> "none"]
  ELSE [status |-> status, media |-> media]

\* (variant: the monitor does not consult hasNewMsg())
Interruption_IgnoresNewMsg(nm, resp, status, media) ==
  IF ~resp THEN [hit |-> TRUE, seen |-> <<"b">>]
  ELSE [hit |-> status = "playing" /\ media # "none", seen |-> <<"b", "c">>]

\* (variant: the responding flag is tested before hasNewMsg())
Interruption_FlagFirst(nm, resp, status, media) ==
  IF ~resp THEN [hit |-> TRUE, seen |-> <<"b">>]
  ELSE IF nm THEN [hit |-> TRUE, seen |-> <<"b", "a">>]
  ELSE [hit |-> status = "playing" /\ media # "none", seen |-> <<"b", "a", "c">>]

\* lines 279-283: the interruption test of one tick, with the conditions it
\* consulted; nm is hasNewMsg(), resp is this.responding
Interruption(nm, resp, status, media) ==
  IF nm THEN [hit |-> TRUE, seen |-> <<"a">>]
  ELSE IF ~resp THEN [hit |-> TRUE, seen |-> <<"a", "b">>]
  ELSE [hit |-> status = "playing" /\ media # "none", seen |-> <<"a", "b", "c">>]

\* lines 292-299: the monitor saw the device not playing
AfterMonitor(s) ==
  IF R_playSFX(s.ropt) /\ cfg.audioBeep THEN [s EXCEPT !.pc = "p_beep2"]
  ELSE IF s.ropt.keepAlive THEN [s EXCEPT !.pc = "p_wake"]
  ELSE [s EXCEPT !.pc = "ret", !.res = "undefined"]

\* (variant: an interruption leaves the loop instead of returning from play())
TickNext_BreakLoop(s, i, status) ==
  IF i.hit \/ status # "playing" THEN AfterMonitor(s)
  ELSE [s EXCEPT !.ticks = s.ticks + 1]

\* (variant: only an interruption ends the monitor loop)
TickNext_KeepsPolling(s, i, status) ==
  IF i.hit THEN [s EXCEPT !.pc = "ret", !.res = "break"]
  ELSE IF status # "playing" THEN s
  ELSE [s EXCEPT !.ticks = s.ticks + 1]

\* (variant: the not-playing test comes before the interruption test)
TickNext_DoneFirst(s, i, status) ==
  IF status # "playing" THEN AfterMonitor(s)
  ELSE IF i.hit THEN [s EXCEPT !.pc = "ret", !.res = "break"]
  ELSE [s EXCEPT !.ticks = s.ticks + 1]

\* lines 279-291: where a tick leaves the call; i is its interruption test
TickNext(s, i, status) ==
  IF i.hit THEN [s EXCEPT !.pc = "ret", !.res = "break"]
  ELSE IF status # "playing" THEN AfterMonitor(s)
  ELSE [s EXCEPT !.ticks = s.ticks + 1]

\* how the log annotates the read of a tick
TickOut(i, status) ==
  IF i.hit THEN "break" ELSE IF status # "playing" THEN "done" ELSE "playing"

\* ------------------------------------------------------------------ actions
\* (variant: a failed device call is swallowed and the call goes on)
Device_Swallow(c, cmd, n) ==
  /\ \/ sess' = [sess EXCEPT ![c] = [n EXCEPT !.log = Append(sess[c].log, cmd)]]
     \/ sess' = [sess EXCEPT ![c] =
                   [n EXCEPT !.log = Append(sess[c].log, [cmd EXCEPT !.out = "threw"])]]
  /\ UNCHANGED <<cfg, responding, defaultSpeaker, doubaoSpeakers, sw, fetches>>

\* an awaited device call of call c: it is issued, and either returns, leaving
\* the call at n, or throws, which ends respond() with the error
Device(c, cmd, n) ==
  /\ \/ sess' = [sess EXCEPT ![c] = [n EXCEPT !.log = Append(sess[c].log, cmd)]]
     \/ sess' = [sess EXCEPT ![c] =
                   [sess[c] EXCEPT !.log = Append(sess[c].log, [cmd EXCEPT !.out = "threw"]),
                                   !.pc = "failed", !.res = "threw"]]
  /\ UNCHANGED <<cfg, responding, defaultSpeaker, doubaoSpeakers, sw, fetches>>

Local(c, n) ==
  /\ sess' = [sess EXCEPT ![c] = n]
  /\ UNCHANGED <<cfg, responding, defaultSpeaker, doubaoSpeakers, sw, fetches>>

\* response(options), lines 131-157: up to the first pull or the call of _response
Start(c, o) ==
  /\ sess[c].pc = "idle"
  /\ responding' = TRUE
  /\ sess' = [d \in Calls |->
       IF d = c
       THEN [IdleSession EXCEPT !.opt = o, !.cur = StreamOf(o),
                                !.pc = IF StreamOf(o).on THEN "pull" ELSE "call"]
       ELSE IF sess[d].pc = "poll" THEN [sess[d] EXCEPT !.sup = TRUE]
       ELSE sess[d]]
  /\ UNCHANGED <<cfg, defaultSpeaker, doubaoSpeakers, sw, fetches>>

\* lines 160-171 and 185-199: stream.getNextResponse() and what follows it
Pull(c) ==
  /\ sess[c].pc = "pull"
  /\ LET r == getNextResponse(sess[c].cur)
         s == [sess[c] EXCEPT !.cur = r.cur, !.chunk = r.nextSentence,
                              !.noMore = r.noMore]
     IN Local(c, IF r.nextSentence # <<>> THEN BeforeChunk(s) ELSE AfterChunk(s))

\* lines 164-166: the opening chime of a streaming session
OpeningChime(c) ==
  /\ sess[c].pc = "s_beep"
  /\ Device(c, Beep, [sess[c] EXCEPT !.pc = IF ttsNotXiaoai(sess[c].opt)
                                            THEN "s_pause" ELSE "call"])

\* unWakeUp(), line 107, called from line 169 or line 248
UnWakeUpPause(c) ==
  /\ sess[c].pc \in {"s_pause", "p_pause"}
  /\ Device(c, Pause, [sess[c] EXCEPT !.pc = IF sess[c].pc = "s_pause"
                                             THEN "s_inert" ELSE "p_inert"])

\* unWakeUp(), line 108
UnWakeUpInert(c) ==
  /\ sess[c].pc \in {"s_inert", "p_inert"}
  /\ Device(c, Inert, [sess[c] EXCEPT !.pc = IF sess[c].pc = "s_inert"
                                             THEN "call" ELSE "p_play"])

\* _response(options), lines 218-239 and 302-321: up to the first await of play()
Dispatch(c) ==
  /\ sess[c].pc = "call"
  /\ LET o == IF sess[c].cur.on THEN ChunkOptions(sess[c]) ELSE sess[c].opt
         sp == IF o.speaker = "absent" THEN defaultSpeaker ELSE o.speaker
         a == PlayArgs(o, sp)
         s == [sess[c] EXCEPT !.ropt = o, !.speaker = sp, !.args = a, !.ticks = 0,
                              !.tick = NoTick]
     IN Local(c, IF a.kind = "none" THEN [s EXCEPT !.pc = "ret", !.res = "undefined"]
                 ELSE [s EXCEPT !.pc = PlayEntry(o)])

\* lines 243-245: the opening chime of play()
PlayChime(c) ==
  /\ sess[c].pc = "p_beep"
  /\ Device(c, Beep, [sess[c] EXCEPT !.pc = IF R_ttsNotXiaoai(sess[c].ropt)
                                            THEN "p_pause" ELSE "p_play"])

\* lines 250-257: the playback command and the settle delay
Play(c) ==
  /\ sess[c].pc = "p_play"
  /\ Device(c, PlayCmd(sess[c].args), [sess[c] EXCEPT !.pc = "poll"])

\* lines 259-291: one tick of the monitor
Poll(c) ==
  /\ sess[c].pc = "poll"
  /\ LET read == IF cfg.playingCommand THEN GetProperty ELSE GetStatus
     IN \E nm \in BOOLEAN, status \in {"playing", "idle"}, media \in {"none", "music"} :
          /\ sess[c].newMsg.on => nm
          /\ LET playing == PlayingState(status, media)
                 i == Interruption(nm, responding, playing.status, playing.media)
                 s == [sess[c] EXCEPT !.tick = [nm |-> nm, resp |-> responding,
                                                 status |-> playing.status,
                                                 media |-> playing.media,
                                                 seen |-> i.seen, hit |-> i.hit]]
             IN /\ ~i.hit /\ playing.status = "playing" => sess[c].ticks < MaxTicks
                /\ Device(c, [read EXCEPT !.out = TickOut(i, playing.status)],
                          TickNext(s, i, playing.status))

\* lines 293-295: the closing chime of play()
PlayClosingChime(c) ==
  /\ sess[c].pc = "p_beep2"
  /\ Device(c, Beep, IF sess[c].ropt.keepAlive
                     THEN [sess[c] EXCEPT !.pc = "p_wake"]
                     ELSE [sess[c] EXCEPT !.pc = "ret", !.res = "undefined"])

\* wakeUp(), line 102, called from line 194 or line 298
WakeUp(c) ==
  /\ sess[c].pc \in {"s_wake", "p_wake"}
  /\ Device(c, WakeUpCmd, IF sess[c].pc = "s_wake"
                          THEN [sess[c] EXCEPT !.pc = "exit"]
                          ELSE [sess[c] EXCEPT !.pc = "ret", !.res = "undefined"])

\* lines 172-183 and 202: _response() resolves
Return(c) ==
  /\ sess[c].pc = "ret"
  /\ Local(c, [AfterResponse(sess[c]) EXCEPT !.ropt = NoOptions, !.speaker = "absent",
                                             !.args = NoArgs, !.ticks = 0,
                                             !.tick = NoTick, !.sup = FALSE])

\* lines 188-190: the closing chime of a streaming session
ClosingChime(c) ==
  /\ sess[c].pc = "s_beep2"
  /\ Device(c, Beep, [sess[c] EXCEPT !.pc = IF sess[c].opt.keepAlive
                                            THEN "s_wake" ELSE "exit"])

\* line 199
Sleep(c) ==
  /\ sess[c].pc = "sleep"
  /\ Local(c, [sess[c] EXCEPT !.pc = "pull"])

\* lines 204-205
Exit(c) ==
  /\ sess[c].pc = "exit"
  /\ responding' = FALSE
  /\ sess' = [sess EXCEPT ![c].pc = "done"]
  /\ UNCHANGED <<cfg, defaultSpeaker, doubaoSpeakers, sw, fetches>>

\* the k-th chunk a supplied stream produces
ProducedChunk(k) == <<<<"a", "b", "c", "d">>[k]>>

\* the producer of a caller-supplied stream adds a chunk
Produce(c) ==
  /\ InFlight(c) /\ sess[c].opt.stream
  /\ ~sess[c].cur.fin /\ ~sess[c].cur.cancelled
  /\ Len(sess[c].cur.chunks) < MaxChunks
  /\ Local(c, [sess[c] EXCEPT !.cur.chunks = Append(@, ProducedChunk(Len(@) + 1))])

\* the producer of a caller-supplied stream finishes
Finish(c) ==
  /\ InFlight(c) /\ sess[c].opt.stream
  /\ ~sess[c].cur.fin /\ ~sess[c].cur.cancelled
  /\ Local(c, [sess[c] EXCEPT !.cur.fin = TRUE])

\* the caller's hasNewMsg() of call c starts to return true, and goes on doing so
NewMsg(c) ==
  /\ InFlight(c) /\ ~sess[c].newMsg.on
  /\ Local(c, [sess[c] EXCEPT !.newMsg = [on |-> TRUE, at |-> Len(sess[c].log)]])

\* ------------------------------------------------------------------ switchDefaultSpeaker
\* what the catalog endpoint serves when it serves a list
RemoteCatalog ==
  << [name |-> "Maomao", speaker |-> "v1"], [name |-> "v1", speaker |-> "v2"] >>

SwitchArgs == {"Maomao", "v1", "v2", "nobody"}

\* lines 338-340: Array.prototype.find, as the index of the first match or 0
RECURSIVE FindFrom(_, _, _)
FindFrom(list, sp, i) ==
  IF i > Len(list) THEN 0
  ELSE IF list[i].name = sp \/ list[i].speaker = sp THEN i
  ELSE FindFrom(list, sp, i + 1)

\* (variant: the default becomes the display name of the match)
SwitchedSpeaker_Name(cat, sp, cur) ==
  IF cat.loaded /\ FindFrom(cat.list, sp, 1) > 0
  THEN cat.list[FindFrom(cat.list, sp, 1)].name
  ELSE cur

\* lines 341-343: the default voice after the lookup
SwitchedSpeaker(cat, sp, cur) ==
  IF cat.loaded /\ FindFrom(cat.list, sp, 1) > 0
  THEN cat.list[FindFrom(cat.list, sp, 1)].speaker
  ELSE cur

\* lines 335-337 and 344: the value switchDefaultSpeaker returns
SwitchResult(cat, sp, def) ==
  IF cat.loaded /\ FindFrom(cat.list, sp, 1) > 0
     /\ def = cat.list[FindFrom(cat.list, sp, 1)].speaker
  THEN "true" ELSE "false"

\* lines 335-344, with the catalog cat
Lookup(cat, sp) ==
  /\ defaultSpeaker' = SwitchedSpeaker(cat, sp, defaultSpeaker)
  /\ sw' = [pc |-> "idle", arg |-> sp,
            ret |-> SwitchResult(cat, sp, SwitchedSpeaker(cat, sp, defaultSpeaker))]
  /\ doubaoSpeakers' = cat

\* (variant: the cache is not consulted before fetching)
SwitchBegin_AlwaysFetch(sp) ==
  /\ sw.pc = "idle"
  /\ IF cfg.SPEAKERS_DOUBAO
     THEN /\ fetches < MaxFetch
          /\ fetches' = fetches + 1
          /\ sw' = [pc |-> "fetch", arg |-> sp, ret |-> "none"]
          /\ UNCHANGED <<defaultSpeaker, doubaoSpeakers>>
     ELSE /\ Lookup(doubaoSpeakers, sp)
          /\ UNCHANGED fetches
  /\ UNCHANGED <<cfg, responding, sess>>

\* lines 327-330: the call, up to the fetch if one is needed
SwitchBegin(sp) ==
  /\ sw.pc = "idle"
  /\ IF ~doubaoSpeakers.loaded /\ cfg.SPEAKERS_DOUBAO
     THEN /\ fetches < MaxFetch
          /\ fetches' = fetches + 1
          /\ sw' = [pc |-> "fetch", arg |-> sp, ret |-> "none"]
          /\ UNCHANGED <<defaultSpeaker, doubaoSpeakers>>
     ELSE /\ Lookup(doubaoSpeakers, sp)
          /\ UNCHANGED fetches
  /\ UNCHANGED <<cfg, responding, sess>>

\* lines 330-344: the fetch resolves with a list, with something else, or fails
SwitchFetched ==
  /\ sw.pc = "fetch"
  /\ \/ Lookup([loaded |-> TRUE, list |-> RemoteCatalog], sw.arg)
     \/ Lookup(doubaoSpeakers, sw.arg)
     \/ /\ sw' = [pc |-> "idle", arg |-> sw.arg, ret |-> "threw"]
        /\ UNCHANGED <<defaultSpeaker, doubaoSpeakers>>
  /\ UNCHANGED <<cfg, responding, sess, fetches>>

\* ------------------------------------------------------------------ specifications
\* the steps every respond() call with a payload takes
CoreStep(c) ==
  \/ Pull(c)
  \/ UnWakeUpPause(c)
  \/ UnWakeUpInert(c)
  \/ Dispatch(c)
  \/ Play(c)
  \/ Poll(c)
  \/ Return(c)
  \/ Exit(c)

\* the chimes and the wake-up
ExtraStep(c) ==
  \/ OpeningChime(c)
  \/ PlayChime(c)
  \/ PlayClosingChime(c)
  \/ WakeUp(c)
  \/ ClosingChime(c)

\* the steps only a caller-supplied stream brings
StreamStep(c) ==
  \/ Sleep(c)
  \/ Produce(c)
  \/ Finish(c)

\* Spec: two respond() calls that may overlap; c1 names the one that starts first
OverlapOptions ==
  [text : {<<"a">>, <<"a", NL, SP, NL, "b">>}, audio : {FALSE}, stream : {FALSE},
   tts : {"absent"}, speaker : {"absent"}, keepAlive : BOOLEAN, playSFX : {TRUE}]

OverlapConfigs ==
  [TTS_DOUBAO : BOOLEAN, tts : Providers, audioBeep : {TRUE},
   playingCommand : BOOLEAN, SPEAKERS_DOUBAO : {FALSE}]

Init ==
  /\ cfg \in OverlapConfigs
  /\ InitRest

StartOverlap(c, o) ==
  /\ c = "c2" => sess["c1"].pc # "idle"
  /\ Start(c, o)

Next ==
  \/ \E c \in Calls, o \in OverlapOptions : StartOverlap(c, o)
  \/ \E c \in Calls : CoreStep(c)
  \/ \E c \in Calls : ExtraStep(c)

Spec == Init /\ [][Next]_vars

\* SpecSolo: one respond() call, over every payload, option and configuration
\* (a supplied stream comes without a text: the chunks replace it)
SoloOptions ==
  {o \in [text : Texts, audio : BOOLEAN, stream : BOOLEAN, tts : TtsOptions,
          speaker : {"absent"}, keepAlive : BOOLEAN, playSFX : BOOLEAN] :
     o.stream => o.text = <<>>}

SoloConfigs ==
  [TTS_DOUBAO : BOOLEAN, tts : Providers, audioBeep : BOOLEAN,
   playingCommand : BOOLEAN, SPEAKERS_DOUBAO : {FALSE}]

InitSolo ==
  /\ cfg \in SoloConfigs
  /\ InitRest

NextSolo ==
  \/ \E o \in SoloOptions : Start("c1", o)
  \/ CoreStep("c1")
  \/ ExtraStep("c1")
  \/ StreamStep("c1")

SpecSolo == InitSolo /\ [][NextSolo]_vars

\* SpecVoice: switchDefaultSpeaker calls around vendor and native text responses
VoiceOptions ==
  [text : {<<"a">>}, audio : {FALSE}, stream : {FALSE}, tts : Providers,
   speaker : SpeakerOptions, keepAlive : {FALSE}, playSFX : {FALSE}]

VoiceConfigs ==
  [TTS_DOUBAO : BOOLEAN, tts : {"xiaoai"}, audioBeep : {FALSE},
   playingCommand : {FALSE}, SPEAKERS_DOUBAO : BOOLEAN]

InitVoice ==
  /\ cfg \in VoiceConfigs
  /\ InitRest

NextVoice ==
  \/ \E o \in VoiceOptions : Start("c1", o)
  \/ CoreStep("c1")
  \/ \E sp \in SwitchArgs : SwitchBegin(sp)
  \/ SwitchFetched

SpecVoice == InitVoice /\ [][NextVoice]_vars

\* SpecLive: one respond() call whose steps are scheduled fairly and whose
\* supplied stream is eventually finished by its producer; a monitor sees the
\* device playing for MaxTicks ticks at most
LiveOptions ==
  {o \in [text : {<<>>, <<"a", NL, SP, NL, "b">>}, audio : {FALSE}, stream : BOOLEAN,
          tts : {"absent"}, speaker : {"absent"}, keepAlive : BOOLEAN,
          playSFX : {TRUE}] :
     o.stream <=> o.text = <<>>}

LiveConfigs ==
  [TTS_DOUBAO : BOOLEAN, tts : Providers, audioBeep : {TRUE},
   playingCommand : BOOLEAN, SPEAKERS_DOUBAO : {FALSE}]

InitLive ==
  /\ cfg \in LiveConfigs
  /\ InitRest

NextLive ==
  \/ \E o \in LiveOptions : Start("c1", o)
  \/ CoreStep("c1")
  \/ ExtraStep("c1")
  \/ StreamStep("c1")

\* an awaited call or sleep of respond() that can resume does resume, and the
\* producer of a supplied stream finishes
LiveFairness ==
  /\ WF_vars(CoreStep("c1") \/ ExtraStep("c1") \/ Sleep("c1"))
  /\ WF_vars(Finish("c1"))

SpecLive == InitLive /\ [][NextLive]_vars /\ LiveFairness

\* SpecMsg: one respond() call, streaming or not, during which the caller's
\* hasNewMsg() may start to return true
MsgOptions ==
  {o \in [text : {<<>>, <<"a", NL, SP, NL, "b">>}, audio : {FALSE}, stream : BOOLEAN,
          tts : {"absent"}, speaker : {"absent"}, keepAlive : {FALSE},
          playSFX : {FALSE}] :
     o.stream <=> o.text = <<>>}

MsgConfigs ==
  [TTS_DOUBAO : {TRUE}, tts : Providers, audioBeep : {FALSE},
   playingCommand : BOOLEAN, SPEAKERS_DOUBAO : {FALSE}]

InitMsg ==
  /\ cfg \in MsgConfigs
  /\ InitRest

NextMsg ==
  \/ \E o \in MsgOptions : Start("c1", o)
  \/ CoreStep("c1")
  \/ StreamStep("c1")
  \/ NewMsg("c1")

SpecMsg == InitMsg /\ [][NextMsg]_vars

\* SpecWait: a respond() call on a supplied stream (c1), and a respond() call
\* with a text (c2) that arrives while c1 is in flight
WaitOptions ==
  {o \in [text : {<<>>, <<"a">>}, audio : {FALSE}, stream : BOOLEAN,
          tts : {"absent"}, speaker : {"absent"}, keepAlive : {FALSE},
          playSFX : {FALSE}] :
     o.stream <=> o.text = <<>>}

WaitConfigs ==
  [TTS_DOUBAO : {TRUE}, tts : Providers, audioBeep : {FALSE},
   playingCommand : {FALSE}, SPEAKERS_DOUBAO : {FALSE}]

InitWait ==
  /\ cfg \in WaitConfigs
  /\ InitRest

StartWait(c, o) ==
  /\ c = "c1" <=> o.stream
  /\ c = "c2" => sess["c1"].pc # "idle"
  /\ Start(c, o)

NextWait ==
  \/ \E c \in Calls, o \in WaitOptions : StartWait(c, o)
  \/ \E c \in Calls : CoreStep(c)
  \/ \E c \in Calls : StreamStep(c)

SpecWait == InitWait /\ [][NextWait]_vars

\* ------------------------------------------------------------------ claims
Last(q) == q[Len(q)]

IsRead(e) == e.op \in {"getStatus", "getProperty"}

\* the playback command of a dispatch: a play of a URL or a TTS action that is
\* not the inert phrase of unWakeUp
IsSpeech(e) ==
  \/ e.op = "play" /\ e.what \in {"audio", "ttsurl"}
  \/ e.op = "doAction" /\ e.what = "tts" /\ e.text # kAreYouOK

\* call c takes a tick of its monitor in this step, and the read returns
Ticked(c) ==
  /\ sess[c].pc = "poll"
  /\ Len(sess'[c].log) = Len(sess[c].log) + 1
  /\ sess'[c].pc # "failed"

\* C1: a call that another respond() call overtook while it was in its monitor
\* returns Interrupted at its next tick on which the device still plays, even
\* with interruptionCheck() false and no media type reported.
C1_SupersededInterruptedAtNextTick ==
  [][\A c \in Calls :
       (sess[c].sup /\ Ticked(c) /\ sess'[c].tick.status = "playing")
         => sess'[c].res = "break"]_vars

\* C2: the newer of two overlapping calls (c2) is never interrupted by the older
\* one: no tick of c2 returns Interrupted while its interruptionCheck() is false
\* and the device does not report playing with a media type.
C2_NewerNeverInterruptedByOlder ==
  ~ (/\ sess["c2"].pc = "ret"
     /\ sess["c2"].res = "break"
     /\ ~sess["c2"].tick.nm
     /\ ~(sess["c2"].tick.status = "playing" /\ sess["c2"].tick.media # "none"))

\* C3: the responding flag is true while a call runs and false after every exit
\* of a call (normal, interrupted or by an error of a device call) when no other
\* call is in flight.
C3_FlagFalseAfterEveryExit ==
  \A c \in Calls :
    /\ (InFlight(c) /\ \A d \in Calls \ {c} : sess[d].pc = "idle")
         => responding = TRUE
    /\ (sess[c].pc \in {"done", "failed"} /\ \A d \in Calls \ {c} : ~InFlight(d))
         => responding = FALSE

\* a text payload: speakable text, no audio URL, no stream
TextPayload(o) == ~o.audio /\ ~o.stream /\ TtsText(o.text) # <<>>

\* C4: with no vendor endpoint configured, a call with a text payload issues
\* nothing but one native TTS action carrying the whole normalized text, the
\* reads of its one monitor pass and the wake-up: no chime, no unwake, no
\* play-URL command; and it has issued that action once it has completed.
C4_NativeWhenNoEndpoint ==
  \A c \in Calls :
    (~cfg.TTS_DOUBAO /\ sess[c].pc # "idle" /\ TextPayload(sess[c].opt)) =>
      /\ \A i \in 1..Len(sess[c].log) :
           \/ IsRead(sess[c].log[i])
           \/ sess[c].log[i].what = "wake"
           \/ /\ sess[c].log[i].op = "doAction" /\ sess[c].log[i].what = "tts"
              /\ sess[c].log[i].text = TtsText(sess[c].opt.text)
      /\ Cardinality({i \in 1..Len(sess[c].log) : IsSpeech(sess[c].log[i])}) <= 1
      /\ (sess[c].pc = "done" =>
            Cardinality({i \in 1..Len(sess[c].log) : IsSpeech(sess[c].log[i])}) = 1)

\* no payload: no audio URL, no stream, and a text that is absent, empty, or
\* normalizes to empty under the native provider
NoPayload(o) ==
  /\ ~o.audio /\ ~o.stream
  /\ o.text = <<>> \/ (TtsText(o.text) = <<>> /\ EffectiveTts(o) = "xiaoai")

\* C5: a call with no payload issues no device call at all and returns the
\* Skipped outcome (it ends, with no result and without an error).
C5_NoPayloadSkipped ==
  \A c \in Calls :
    (sess[c].pc # "idle" /\ NoPayload(sess[c].opt)) =>
      /\ sess[c].log = <<>>
      /\ sess[c].res = "undefined"
      /\ sess[c].pc \in {"call", "ret", "exit", "done"}

C5_Witness ==
  /\ sess["c1"].pc = "done"
  /\ sess["c1"].opt.text = <<SP>>
  /\ NoPayload(sess["c1"].opt)
  /\ cfg.tts = "doubao"

\* the speech commands of a log, in order
RECURSIVE SpeechOf(_)
SpeechOf(log) ==
  IF log = <<>> THEN <<>>
  ELSE IF IsSpeech(Head(log)) THEN <<Head(log).text>> \o SpeechOf(Tail(log))
  ELSE SpeechOf(Tail(log))

\* the text a chunk is spoken with: normalized, and URL-escaped on the vendor path
SpokenText(o, chunk) ==
  IF (IF o.tts = "absent" THEN cfg.tts ELSE o.tts) = "doubao"
  THEN EncodeURIComponent(TtsText(chunk)) ELSE TtsText(chunk)

\* the spoken texts of the chunks 1..n of a cursor, those with nothing to speak left out
RECURSIVE SpokenChunks(_, _, _)
SpokenChunks(o, chunks, n) ==
  IF n = 0 THEN <<>>
  ELSE SpokenChunks(o, chunks, n - 1) \o
       (IF TtsText(chunks[n]) = <<>> THEN <<>> ELSE <<SpokenText(o, chunks[n])>>)

\* the chunk pulled last has not been played yet
BeforeSpeech(s) == s.pc \in {"s_beep", "s_pause", "s_inert", "call", "p_beep", "p_pause", "p_inert", "p_play"}

\* the index of the last read before position j of a log, or 0
RECURSIVE LastReadBefore(_, _)
LastReadBefore(log, j) ==
  IF j <= 1 THEN 0
  ELSE IF IsRead(log[j - 1]) THEN j - 1 ELSE LastReadBefore(log, j - 1)

\* C6: in a streaming session the speech commands issued are those of the chunks
\* pulled so far, in cursor order (each chunk's text, when no audio URL replaces
\* it); a speech command that is not the
\* first comes after a monitor tick that resolved Completed, with no other speech
\* command in between; and once a tick returned Interrupted nothing more is
\* issued, the cursor is cancelled and its position stays.
C6_ChunksInOrderOneAtATime ==
  \A c \in Calls :
    LET s == sess[c] IN
    s.cur.on =>
      /\ ~s.opt.audio =>
           /\ \E n \in {s.cur.pos - 1, s.cur.pos} :
                n >= 0 /\ SpeechOf(s.log) = SpokenChunks(s.opt, s.cur.chunks, n)
           /\ s.pc # "failed" =>
                SpeechOf(s.log) =
                  SpokenChunks(s.opt, s.cur.chunks,
                               IF BeforeSpeech(s) THEN s.cur.pos - 1 ELSE s.cur.pos)
      /\ \A j \in 1..Len(s.log) :
           (IsSpeech(s.log[j]) /\ \E i \in 1..(j - 1) : IsSpeech(s.log[i])) =>
             /\ LastReadBefore(s.log, j) > 0
             /\ s.log[LastReadBefore(s.log, j)].out = "done"
             /\ \A i \in LastReadBefore(s.log, j)..(j - 1) : ~IsSpeech(s.log[i])
      /\ \A j \in 1..Len(s.log) : s.log[j].out = "break" => j = Len(s.log)
      /\ (s.res = "break" /\ s.pc \in {"exit", "done"}) => s.cur.cancelled
      /\ s.cur.cancelled => (s.pc \in {"exit", "done"} /\ s.res = "break")

C6_Witness ==
  /\ sess["c1"].pc = "done"
  /\ sess["c1"].cur.cancelled
  /\ sess["c1"].cur.pos = 2
  /\ Len(sess["c1"].cur.chunks) = 2
  /\ sess["c1"].opt.stream
  /\ SpeechOf(sess["c1"].log) = <<<<"a">>, <<"b">>>>

\* the last thing call c did was a tick of its monitor whose read returned
JustTicked(s) ==
  /\ s.pc \in {"poll", "ret", "p_beep2", "p_wake"}
  /\ s.args.kind # "none"
  /\ s.log # <<>> /\ IsRead(Last(s.log))

\* C7: every tick consults interruptionCheck() first, the responding flag only
\* when (a) is false and the device state only when (a) is false and the flag is
\* set; a tick on which interruptionCheck() is true returns Interrupted whatever
\* the flag and the device state are.
C7_InterruptionOrder ==
  \A c \in Calls :
    LET s == sess[c] IN
    JustTicked(s) =>
         /\ s.tick.seen \in {<<"a">>, <<"a", "b">>, <<"a", "b", "c">>}
         /\ s.tick.seen = <<"a">> <=> s.tick.nm
         /\ s.tick.seen = <<"a", "b">> <=> (~s.tick.nm /\ ~s.tick.resp)
         /\ s.tick.nm => (s.pc = "ret" /\ s.res = "break")

C7_Witness ==
  \E c \in Calls :
    /\ JustTicked(sess[c])
    /\ sess[c].tick.nm /\ ~sess[c].tick.resp
    /\ sess[c].tick.status = "playing" /\ sess[c].tick.media = "music"
    /\ sess[c].res = "break"

\* what a tick observed is an interruption
Observed(t) == t.nm \/ ~t.resp \/ (t.status = "playing" /\ t.media # "none")

\* C9: a tick that observes an interruption returns Interrupted at once, and the
\* session issues no device command after the read of that tick: no closing
\* chime, no wake-up, no further chunk.
C9_NothingAfterInterruption ==
  \A c \in Calls :
    LET s == sess[c] IN
    /\ (JustTicked(s) /\ Observed(s.tick)) =>
         (s.pc = "ret" /\ s.res = "break" /\ Last(s.log).out = "break")
    /\ (JustTicked(s) /\ ~Observed(s.tick)) => Last(s.log).out # "break"
    /\ \A j \in 1..Len(s.log) : s.log[j].out = "break" =>
         (j = Len(s.log) /\ s.res = "break" /\ s.pc \in {"ret", "exit", "done"})

C9_Witness ==
  \E c \in Calls :
    /\ sess[c].pc = "done" /\ sess[c].res = "break"
    /\ sess[c].opt.keepAlive /\ playSFX(sess[c].opt)
    /\ sess[c].cur.cancelled
    /\ Last(sess[c].log).out = "break"

\* the chime is warranted for a call: vendor provider in effect, a text or a
\* stream and no audio URL, the chime requested, and, the session being a
\* streaming one, a chunk produced
ChimeWarranted(s) ==
  /\ EffectiveTts(s.opt) # "xiaoai"
  /\ (s.opt.text # <<>> \/ s.opt.stream) /\ ~s.opt.audio
  /\ s.opt.playSFX
  /\ s.cur.on => s.cur.pos >= 1

Matches(list, sp) == {i \in 1..Len(list) : list[i].name = sp \/ list[i].speaker = sp}

\* a switchDefaultSpeaker call returns in this step, with the catalog loaded
SwitchReturns ==
  /\ sw'.pc = "idle" /\ sw'.ret \in {"true", "false"}
  /\ doubaoSpeakers'.loaded
  /\ UNCHANGED sess

\* C10: with the catalog loaded, a switch to a name or id some entry carries
\* makes a matching entry's voice id the default and returns true, a switch to
\* anything else returns false and leaves the default; and a vendor dispatch
\* without an explicit speaker builds its URL with the default of that moment,
\* which is the URL the play command then carries.
C10_SwitchDefaultVoice ==
  [][/\ SwitchReturns =>
          IF Matches(doubaoSpeakers'.list, sw'.arg) # {}
          THEN /\ sw'.ret = "true"
               /\ \E i \in Matches(doubaoSpeakers'.list, sw'.arg) :
                    defaultSpeaker' = doubaoSpeakers'.list[i].speaker
          ELSE sw'.ret = "false" /\ defaultSpeaker' = defaultSpeaker
     /\ \A c \in Calls :
          /\ (sess[c].pc = "call" /\ sess'[c].pc # "call"
                /\ sess'[c].args.kind = "ttsurl" /\ sess[c].opt.speaker = "absent")
               => sess'[c].args.speaker = defaultSpeaker
          /\ (sess[c].pc = "p_play" /\ sess'[c].pc # "p_play"
                /\ sess[c].args.kind = "ttsurl")
               => /\ Last(sess'[c].log).what = "ttsurl"
                  /\ Last(sess'[c].log).speaker = sess[c].args.speaker]_vars

C10_Witness ==
  /\ sw.ret = "true" /\ sw.arg = "Maomao" /\ defaultSpeaker = "v1"
  /\ sess["c1"].opt.speaker = "absent"
  /\ sess["c1"].log # <<>>
  /\ Last(sess["c1"].log).what = "ttsurl"
  /\ Last(sess["c1"].log).speaker = "v1"

\* the catalog is not available to the switchDefaultSpeaker call that returned last
CatalogUnavailable == ~doubaoSpeakers.loaded

\* C11: a switchDefaultSpeaker call that finds no catalog (no endpoint, a failed
\* fetch, or a fetched value that is no list) returns false, does not raise, and
\* leaves the default voice id as it was.
C11_UnavailableCatalogReturnsFalse ==
  (sw.pc = "idle" /\ sw.ret # "none" /\ CatalogUnavailable) =>
    (sw.ret = "false" /\ defaultSpeaker = kDefaultSpeaker)

\* C12 as stated: over any sequence of switchDefaultSpeaker calls the catalog
\* endpoint is fetched at most once, also when the first fetch gave no list.
C12_FetchedAtMostOnce == fetches <= 1

\* C12, amended: a fetch is issued only by a call that starts with an empty cache
\* and a configured endpoint, one fetch per such call; once a fetch has stored a
\* list no later call fetches.
C12_FetchOnlyWithEmptyCache ==
  [][/\ fetches' # fetches =>
          /\ ~doubaoSpeakers.loaded /\ cfg.SPEAKERS_DOUBAO
          /\ fetches' = fetches + 1
          /\ sw.pc = "idle" /\ sw'.pc = "fetch"
     /\ (sw.pc = "idle" /\ sw' # sw /\ ~doubaoSpeakers.loaded /\ cfg.SPEAKERS_DOUBAO)
          => fetches' = fetches + 1
     /\ (sw.pc = "idle" /\ doubaoSpeakers.loaded) => fetches' = fetches]_vars

C12_Witness ==
  /\ fetches = 2
  /\ doubaoSpeakers.loaded
  /\ sw.pc = "idle" /\ sw.ret = "true"

\* C13: a tick on which interruptionCheck() is true or the responding flag is
\* cleared while the device reports not playing returns Interrupted, not Completed;
\* so does the first tick after the settle delay.
C13_InterruptedBeforeNotPlaying ==
  \A c \in Calls :
    LET s == sess[c] IN
    (JustTicked(s) /\ (s.tick.nm \/ ~s.tick.resp) /\ s.tick.status # "playing") =>
      /\ s.tick.hit
      /\ s.pc = "ret" /\ s.res = "break"
      /\ Last(s.log).out = "break"

\* the first tick of a dispatch, interruptionCheck() true, device not playing
C13_Witness ==
  \E c \in Calls :
    /\ JustTicked(sess[c])
    /\ sess[c].ticks = 0
    /\ ~IsRead(sess[c].log[Len(sess[c].log) - 1])
    /\ sess[c].tick.nm /\ sess[c].tick.resp
    /\ sess[c].tick.status = "idle"
    /\ sess[c].res = "break"

IsWake(e) == e.op = "doAction" /\ e.what = "wake"

IsChime(e) == e.op = "play" /\ e.what = "beep"

\* the positions of a log that hold a wake-up action
Wakes(log) == {j \in 1..Len(log) : IsWake(log[j])}

\* respond() resolved Completed: it returned, its last dispatch was not
\* interrupted, and it was a streaming session or it played its payload
Completed(s) ==
  /\ s.pc = "done" /\ s.res = "undefined"
  /\ s.cur.on \/ \E j \in 1..Len(s.log) : IsSpeech(s.log[j])

\* C14: a session that resolves Completed issues the wake-up action once if
\* keepAlive was requested and never otherwise; a wake-up action is the last
\* command of the session, after the last monitor tick (which saw the device not
\* playing) and after the closing chime; and in a streaming session the dispatch
\* of a chunk issues neither a chime nor the wake-up action.
C14_WakeUpOnceAtTheEnd ==
  \A c \in Calls :
    LET s == sess[c] IN
    /\ Completed(s) => Cardinality(Wakes(s.log)) = IF s.opt.keepAlive THEN 1 ELSE 0
    /\ \A j \in Wakes(s.log) :
         /\ j = Len(s.log)
         /\ s.opt.keepAlive
         /\ LastReadBefore(s.log, j) > 0 => s.log[LastReadBefore(s.log, j)].out = "done"
    /\ s.cur.on =>
         /\ s.pc \notin {"p_beep", "p_beep2", "p_wake"}
         /\ \A j \in 1..Len(s.log) : (IsChime(s.log[j]) \/ IsWake(s.log[j])) =>
              \/ \A i \in 1..(j - 1) : ~IsSpeech(s.log[i]) /\ ~IsRead(s.log[i])
              \/ \A i \in (j + 1)..Len(s.log) : ~IsSpeech(s.log[i]) /\ ~IsRead(s.log[i])

\* a streaming session of two chunks that ends with the closing chime and the wake-up
C14_Witness ==
  /\ Completed(sess["c1"])
  /\ sess["c1"].cur.on /\ sess["c1"].opt.keepAlive
  /\ Len(SpeechOf(sess["c1"].log)) = 2
  /\ Len(sess["c1"].log) > 2
  /\ IsWake(Last(sess["c1"].log))
  /\ IsChime(sess["c1"].log[Len(sess["c1"].log) - 1])

IsPause(e) == e.op = "pause"

IsInert(e) == e.op = "doAction" /\ e.what = "tts" /\ e.text = kAreYouOK

\* C15: a streaming session with a vendor provider in effect, a text or stream
\* payload and the chime requested issues its commands in this order: the
\* opening chime, the pause and the inert phrase of unWakeUp, then the speech
\* command of the first chunk with nothing but unWakeUp commands in between; a
\* later chime comes when the cursor has no chunk left and the monitor of every
\* speech command has seen the device not playing, and no speech command or tick
\* follows it. A session whose cursor gave no chunk issues no chime.
C15_StreamingCommandOrder ==
  \A c \in Calls :
    LET s == sess[c] IN
    (s.cur.on /\ playSFX(s.opt)) =>
      /\ s.cur.pos = 0 => \A j \in 1..Len(s.log) : ~IsChime(s.log[j])
      /\ (s.cur.pos > 0 /\ Len(s.log) >= 1) => IsChime(s.log[1])
      /\ Len(s.log) >= 2 => IsPause(s.log[2])
      /\ Len(s.log) >= 3 => IsInert(s.log[3])
      /\ \A j \in 1..Len(s.log) : IsSpeech(s.log[j]) =>
           /\ j > 3
           /\ (\A i \in 1..(j - 1) : ~IsSpeech(s.log[i])) =>
                \A i \in 4..(j - 1) : IsPause(s.log[i]) \/ IsInert(s.log[i])
      /\ \A j \in 2..Len(s.log) : IsChime(s.log[j]) =>
           /\ \A i \in 1..(j - 1) : IsSpeech(s.log[i]) =>
                /\ LastReadBefore(s.log, j) > i
                /\ s.log[LastReadBefore(s.log, j)].out = "done"
           /\ s.noMore /\ s.cur.fin /\ s.cur.pos = Len(s.cur.chunks)
           /\ \A i \in (j + 1)..Len(s.log) :
                ~IsSpeech(s.log[i]) /\ ~IsRead(s.log[i]) /\ ~IsChime(s.log[i])

\* two chunks spoken between the opening and the closing chime
C15_Witness ==
  /\ sess["c1"].pc = "done"
  /\ sess["c1"].cur.on /\ playSFX(sess["c1"].opt)
  /\ Len(SpeechOf(sess["c1"].log)) = 2
  /\ IsChime(sess["c1"].log[1])
  /\ IsChime(Last(sess["c1"].log))

\* C16: a device call that fails ends respond() with the error: the call is left
\* with the error as its result (neither Completed nor Interrupted), the failed
\* command is the last one the session issues (no retry, no later command), and
\* the session pulls and dispatches nothing afterwards.
C16_DeviceFailurePropagates ==
  [][\A c \in Calls :
       /\ \A j \in 1..Len(sess'[c].log) : sess'[c].log[j].out = "threw" =>
            /\ j = Len(sess'[c].log)
            /\ sess'[c].pc = "failed" /\ sess'[c].res = "threw"
       /\ (sess[c].pc # "failed" /\ sess'[c].pc = "failed") =>
            /\ Len(sess'[c].log) = Len(sess[c].log) + 1
            /\ Last(sess'[c].log).out = "threw"
            /\ sess'[c].cur = sess[c].cur
       /\ sess[c].pc = "failed" => sess'[c] = sess[c]]_vars

\* the play command of the first chunk failed and the cursor holds more chunks
C16_Witness ==
  /\ sess["c1"].pc = "failed" /\ sess["c1"].res = "threw"
  /\ sess["c1"].cur.on /\ sess["c1"].cur.pos = 1
  /\ Len(sess["c1"].cur.chunks) > 1
  /\ IsSpeech(Last(sess["c1"].log))
  /\ Last(sess["c1"].log).out = "threw"

\* a tick that saw the device playing with no media type, interruptionCheck()
\* false and the responding flag set
Continuing(t) == t.status = "playing" /\ t.media = "none" /\ ~t.nm /\ t.resp

\* C17: a tick that sees the device playing with no media type, with
\* interruptionCheck() false and the flag set, leaves the call in its monitor loop
\* however many ticks went before, and only such a tick does; and with fair
\* scheduling, every monitor eventually seeing the device not playing and the
\* cursor eventually reporting no-more, a respond() call in flight eventually
\* returns.
C17_PollsUntilDoneAndReturns ==
  /\ [][\A c \in Calls : Ticked(c) =>
          /\ Continuing(sess'[c].tick) <=> sess'[c].pc = "poll"
          /\ Continuing(sess'[c].tick) =>
               sess'[c] = [sess[c] EXCEPT !.tick = sess'[c].tick,
                                          !.log = sess'[c].log,
                                          !.ticks = sess[c].ticks + 1]]_vars
  /\ \A c \in Calls : InFlight(c) ~> ~InFlight(c)

\* a supplied stream was spoken to its end after a monitor had gone on polling
C17_Witness ==
  /\ Completed(sess["c1"])
  /\ sess["c1"].opt.stream
  /\ Len(SpeechOf(sess["c1"].log)) = 2
  /\ \E j \in 1..Len(sess["c1"].log) :
       IsRead(sess["c1"].log[j]) /\ sess["c1"].log[j].out = "playing"

\* the positions of the speech commands a session issued after its hasNewMsg()
\* had started to return true
SpeechAfterNewMsg(s) ==
  {j \in (s.newMsg.at + 1)..Len(s.log) : IsSpeech(s.log[j])}

\* C18: in a streaming session whose hasNewMsg() has started to return true for
\* good, at most one speech command is issued from then on; the chunk it belongs
\* to is dispatched as usual, every tick from then on returns Interrupted, so a
\* speech command issued after the change is followed by one tick at most, and
\* the session that took such a tick returns Interrupted.
C18_OneMoreChunkAfterNewMsg ==
  \A c \in Calls :
    LET s == sess[c] IN
    (s.cur.on /\ s.newMsg.on) =>
      /\ Cardinality(SpeechAfterNewMsg(s)) <= 1
      /\ \A j \in (s.newMsg.at + 1)..Len(s.log) : IsRead(s.log[j]) =>
           /\ s.log[j].out \in {"break", "threw"}
           /\ j = Len(s.log)
           /\ s.log[j].out = "break" =>
                (s.res = "break" /\ s.pc \in {"ret", "exit", "done"})
      /\ \A j \in SpeechAfterNewMsg(s) : \A i \in (j + 1)..Len(s.log) :
           IsRead(s.log[i]) /\ i = j + 1

\* the second chunk was pulled and spoken after hasNewMsg() had turned true, and
\* its first tick ended the session
C18_Witness ==
  /\ sess["c1"].pc = "done" /\ sess["c1"].res = "break"
  /\ sess["c1"].cur.on /\ sess["c1"].newMsg.on
  /\ sess["c1"].cur.cancelled
  /\ Len(SpeechOf(sess["c1"].log)) = 2
  /\ Cardinality(SpeechAfterNewMsg(sess["c1"])) = 1
  /\ sess["c1"].log[sess["c1"].newMsg.at].out = "done"

\* the cursor of a streaming session has neither a chunk nor end-of-stream to give
Waiting(s) ==
  /\ s.cur.on /\ s.pc \in {"pull", "sleep"}
  /\ s.cur.pos = Len(s.cur.chunks)
  /\ ~s.cur.fin /\ ~s.cur.cancelled

\* C19: while its cursor has neither a chunk nor end-of-stream to give, a
\* streaming session issues no device call and takes no tick (it consults neither
\* interruptionCheck() nor the flag), and it stays in flight with the responding
\* flag true, whatever other respond() calls do meanwhile.
C19_WaitingSessionKeepsFlag ==
  [][\A c \in Calls : Waiting(sess[c]) =>
       /\ sess'[c].log = sess[c].log
       /\ sess'[c].tick = sess[c].tick
       /\ InFlight(c)'
       /\ responding /\ responding']_vars

\* C20: with a property command for playing detection configured, the monitor
\* issues no status read and learns no media type, so a tick returns Interrupted
\* exactly when interruptionCheck() is true or the responding flag is cleared;
\* a tick without either that reads a value other than the playing marker ends
\* the monitor as Completed, and only a tick that read the marker is followed by
\* another tick.
C20_PropertyPollingHasNoMediaRule ==
  cfg.playingCommand =>
    \A c \in Calls :
      LET s == sess[c] IN
      /\ \A j \in 1..Len(s.log) : s.log[j].op # "getStatus"
      /\ \A j \in 1..(Len(s.log) - 1) :
           (IsRead(s.log[j]) /\ IsRead(s.log[j + 1])) => s.log[j].out = "playing"
      /\ JustTicked(s) =>
           /\ Last(s.log).op = "getProperty"
           /\ s.tick.media = "none"
           /\ s.tick.hit <=> (s.tick.nm \/ ~s.tick.resp)
           /\ (s.pc = "ret" /\ s.res = "break") <=> (s.tick.nm \/ ~s.tick.resp)
           /\ (~s.tick.nm /\ s.tick.resp /\ s.tick.status # "playing") =>
                /\ Last(s.log).out = "done"
                /\ s.pc \in {"p_beep2", "p_wake", "ret"}

\* the second tick of a monitor read a value other than the marker
C20_Witness ==
  /\ cfg.playingCommand
  /\ \E c \in Calls :
       /\ JustTicked(sess[c]) /\ sess[c].ticks = 1
       /\ ~sess[c].tick.nm /\ sess[c].tick.resp
       /\ sess[c].tick.status = "idle"
       /\ Last(sess[c].log).out = "done"
       /\ sess[c].log[Len(sess[c].log) - 1].op = "getProperty"

====
